---- MODULE Spec2Model ----
(***************************************************************************)
(* PocketDB (src/pocketdb.py): an in-memory key-value store with lazy TTL  *)
(* expiry, pickle snapshots and a background auto-save thread.             *)
(*                                                                         *)
(* The two tables are Python dicts; a dict is modelled as the sequence of  *)
(* its <<key, value>> pairs in insertion order.  A string is modelled as   *)
(* the sequence of its characters.  Time is an integer clock.              *)
(***************************************************************************)
EXTENDS Integers, Sequences, FiniteSets, TLC

\* ------------------------------------------------------------------ bounds
MaxTime == 2
MaxTtl == 1
MaxOps == 3
MaxStores == 2

\* ------------------------------------------------------------- input sets
Callers == {"t1", "t2"}
Worker == "w"
Free == "free"

Str(s) == [isstr |-> TRUE, s |-> s]
NotStr == [isstr |-> FALSE, s |-> <<"1">>]
ValidKeys == {<<"a">>, <<"b">>}
Whitespace == {" ", "\t", "\n"}
KeyInputs == {Str(k) : k \in ValidKeys} \cup {Str(<<>>), Str(<<" ">>), NotStr}

PyNone == "None"
Function == "<function>"
Values == {PyNone, "x"}
ValueInputs == Values \cup {Function}

NoTtl == [kind |-> "none", n |-> 0]
FloatTtl == [kind |-> "float", n |-> 1]
IntTtl(n) == [kind |-> "int", n |-> n]
TtlInputs == {NoTtl, FloatTtl} \cup {IntTtl(n) : n \in (0 - 1)..MaxTtl}

DefaultFile == "pocketdb.pdb"
Files == {DefaultFile, "backup.pdb"}
FileArgs == Files \cup {PyNone}

\* ------------------------------------------------------------ Python dict
EmptyDict == <<>>

DictKeys(d) == {d[i][1] : i \in 1..Len(d)}

Has(d, k) == \E i \in 1..Len(d) : d[i][1] = k

Lookup(d, k) == d[CHOOSE i \in 1..Len(d) : d[i][1] = k][2]

RECURSIVE Replace(_, _, _)
Replace(d, k, v) ==
    IF d = <<>> THEN <<>>
    ELSE <<IF Head(d)[1] = k THEN <<k, v>> ELSE Head(d)>> \o Replace(Tail(d), k, v)

\* Mutant of Store: an existing key keeps its old value.
Store_keep_old(d, k, v) == IF Has(d, k) THEN d ELSE Append(d, <<k, v>>)

\* Mutant of Store: the new pair replaces the whole dict.
Store_alone(d, k, v) == <<<<k, v>>>>

\* d[k] = v: an existing key keeps its position, a new key goes last.
Store(d, k, v) == IF Has(d, k) THEN Replace(d, k, v) ELSE Append(d, <<k, v>>)

\* Mutant of Del: the key stays.
Del_nothing(d, k) == d

\* del d[k]
RECURSIVE Del(_, _)
Del(d, k) ==
    IF d = <<>> THEN <<>>
    ELSE IF Head(d)[1] = k THEN Del(Tail(d), k)
    ELSE <<Head(d)>> \o Del(Tail(d), k)

RECURSIVE KeyList(_)
KeyList(d) == IF d = <<>> THEN <<>> ELSE <<Head(d)[1]>> \o KeyList(Tail(d))

RECURSIVE ValueList(_)
ValueList(d) == IF d = <<>> THEN <<>> ELSE <<Head(d)[2]>> \o ValueList(Tail(d))

\* ------------------------------------------------------------- statistics
ZeroStats ==
    [gets |-> 0, sets |-> 0, deletes |-> 0, hits |-> 0, misses |-> 0, expired |-> 0]

\* ------------------------------------------------------------- validation
\* Mutant of validate_key: any string passes, the empty one too.
validate_key_any_str(key) == key.isstr

validate_key(key) == key.isstr /\ \E i \in 1..Len(key.s) : key.s[i] \notin Whitespace

validate_value(value) == value # Function

\* ---------------------------------------------------------------- pruning
\* The store's tables as one value: the value table (d, or None when none
\* is true), the expiry table and the counters.
Tables(d, none, tt, st) == [data |-> d, none |-> none, ttl |-> tt, stats |-> st]

\* Mutant of ExpiredKeys: a key expires one instant late.
RECURSIVE ExpiredKeys_late(_, _)
ExpiredKeys_late(tt, system_time) ==
    IF tt = <<>> THEN <<>>
    ELSE (IF system_time > Head(tt)[2] + 1 THEN <<Head(tt)[1]>> ELSE <<>>)
         \o ExpiredKeys_late(Tail(tt), system_time)

\* Mutant of ExpiredKeys: a key expires at its expiry instant already.
RECURSIVE ExpiredKeys_at(_, _)
ExpiredKeys_at(tt, system_time) ==
    IF tt = <<>> THEN <<>>
    ELSE (IF system_time >= Head(tt)[2] THEN <<Head(tt)[1]>> ELSE <<>>)
         \o ExpiredKeys_at(Tail(tt), system_time)

\* The first loop of _prune_expired: the keys whose expiry is in the past.
RECURSIVE ExpiredKeys(_, _)
ExpiredKeys(tt, system_time) ==
    IF tt = <<>> THEN <<>>
    ELSE (IF system_time > Head(tt)[2] THEN <<Head(tt)[1]>> ELSE <<>>)
         \o ExpiredKeys(Tail(tt), system_time)

\* The second loop of _prune_expired: err names the exception that ends it.
RECURSIVE PruneLoop(_, _)
PruneLoop(expired_keys, tb) ==
    IF expired_keys = <<>> THEN [tb |-> tb, err |-> "none"]
    ELSE LET key == Head(expired_keys) IN
         IF tb.none THEN [tb |-> tb, err |-> "TypeError"]
         ELSE IF ~Has(tb.data, key) THEN [tb |-> tb, err |-> "KeyError"]
         ELSE PruneLoop(Tail(expired_keys),
                        Tables(Del(tb.data, key), FALSE, Del(tb.ttl, key),
                               [tb.stats EXCEPT !.expired = @ + 1]))

\* Mutant of prune_expired: the expired keys leave the value table only.
prune_expired_data_only(tb, system_time) ==
    LET pr == PruneLoop(ExpiredKeys(tb.ttl, system_time), tb)
    IN  [pr EXCEPT !.tb.ttl = tb.ttl]

prune_expired(tb, system_time) == PruneLoop(ExpiredKeys(tb.ttl, system_time), tb)

\* ----------------------------------------------------------------- pickle
\* A file is a sequence of frames; the empty sequence is a missing file or
\* an empty one (either way there is nothing to read).
Frame(opc, name, d, none, st) == [opc |-> opc, name |-> name, d |-> d, none |-> none, st |-> st]
Mark(opc) == Frame(opc, "", <<>>, FALSE, ZeroStats)
NoFile == <<>>

\* A Python object as pickle sees it: a dict with the fields named in has,
\* or some other object.
Backup(d, none, tt, st) ==
    [isdict |-> TRUE, has |-> {"data", "ttl", "stats"},
     data |-> d, none |-> none, ttl |-> tt, stats |-> st]

\* Mutant of PickleDump: the expiry table is left out of the stream.
PickleDump_no_ttl(obj) ==
    <<Mark("PROTO"), Mark("EMPTY_DICT"),
      Frame("SETITEM", "data", obj.data, obj.none, ZeroStats),
      Frame("SETITEM", "stats", <<>>, FALSE, obj.stats),
      Mark("STOP")>>

PickleDump(obj) ==
    IF ~obj.isdict THEN <<Mark("PROTO"), Mark("LIST"), Mark("STOP")>>
    ELSE <<Mark("PROTO"), Mark("EMPTY_DICT")>>
         \o (IF "data" \in obj.has
             THEN <<Frame("SETITEM", "data", obj.data, obj.none, ZeroStats)>> ELSE <<>>)
         \o (IF "ttl" \in obj.has
             THEN <<Frame("SETITEM", "ttl", obj.ttl, FALSE, ZeroStats)>> ELSE <<>>)
         \o (IF "stats" \in obj.has
             THEN <<Frame("SETITEM", "stats", <<>>, FALSE, obj.stats)>> ELSE <<>>)
         \o <<Mark("STOP")>>

\* A dump cut short by an I/O error: the STOP opcode never reaches the file.
Truncated(bytes) == SubSeq(bytes, 1, Len(bytes) - 1)

Readable(bytes) ==
    /\ Len(bytes) >= 3
    /\ bytes[1].opc = "PROTO"
    /\ bytes[Len(bytes)].opc = "STOP"

FieldFrames(bytes, name) ==
    SelectSeq(bytes, LAMBDA fr : fr.opc = "SETITEM" /\ fr.name = name)

\* Mutant of PickleLoad: the expiry table is not read back.
PickleLoad_no_ttl(bytes) ==
    LET fd == FieldFrames(bytes, "data")
        fs == FieldFrames(bytes, "stats")
    IN  [isdict |-> bytes[2].opc = "EMPTY_DICT",
         has |-> {name \in {"data", "stats"} : Len(FieldFrames(bytes, name)) > 0},
         data |-> IF Len(fd) = 0 THEN <<>> ELSE fd[1].d,
         none |-> IF Len(fd) = 0 THEN FALSE ELSE fd[1].none,
         ttl |-> <<>>,
         stats |-> IF Len(fs) = 0 THEN ZeroStats ELSE fs[1].st]

\* pickle.load of a readable file.
PickleLoad(bytes) ==
    LET fd == FieldFrames(bytes, "data")
        ft == FieldFrames(bytes, "ttl")
        fs == FieldFrames(bytes, "stats")
    IN  [isdict |-> bytes[2].opc = "EMPTY_DICT",
         has |-> {name \in {"data", "ttl", "stats"} : Len(FieldFrames(bytes, name)) > 0},
         data |-> IF Len(fd) = 0 THEN <<>> ELSE fd[1].d,
         none |-> IF Len(fd) = 0 THEN FALSE ELSE fd[1].none,
         ttl |-> IF Len(ft) = 0 THEN <<>> ELSE ft[1].d,
         stats |-> IF Len(fs) = 0 THEN ZeroStats ELSE fs[1].st]

\* ------------------------------------------------------------------ state
VARIABLES
    data,        \* self._data: the value table (a dict)
    data_none,   \* TRUE when self._data is None (load of a record without 'data')
    ttl,         \* self._ttl: the expiry table (key -> absolute expiry instant)
    stats,       \* self._stats: the six counters
    is_running,  \* self._is_running
    lock,        \* self._lock: the thread that holds it, or Free
    now,         \* time.time()
    disk,        \* the snapshot files, by name
    pc,          \* where each thread is
    op,          \* each thread's operation in progress, with its arguments
    ret,         \* what that operation returns or raises, once it has
    entry,       \* history: the tables as the lock holder found them, pruned
    hist,        \* history: per key, what the last completed set/delete promises
    snap,        \* history: per file, the tables the last successful save wrote
    due,         \* history: per key, the expiry instant its last set asked for
    nops,        \* number of operations called so far
    stores,      \* number of stores constructed so far
    nsets        \* history: number of set calls of this store that returned True

tables == <<data, data_none, ttl, stats>>
history == <<hist, snap, due>>
vars == <<data, data_none, ttl, stats, is_running, lock, now, disk, pc, op, ret,
          entry, hist, snap, due, nops, stores, nsets>>

Threads == Callers \cup {Worker}

Cur == Tables(data, data_none, ttl, stats)

Install(tb) ==
    /\ data' = tb.data
    /\ data_none' = tb.none
    /\ ttl' = tb.ttl
    /\ stats' = tb.stats

NoTables == Tables(<<>>, FALSE, <<>>, ZeroStats)
NoBackup == [Backup(<<>>, FALSE, <<>>, ZeroStats) EXCEPT !.has = {}]
Unknown == "<unknown>"
Absent == "<absent>"
NoDue == 0 - 1

NoOp ==
    [name |-> "none", key |-> NotStr, value |-> PyNone, ttl |-> NoTtl,
     supplied |-> FALSE, default |-> PyNone, file |-> PyNone, pattern |-> <<>>,
     backup |-> NoBackup, seen |-> NoTables, at |-> 0]

NoRet == [kind |-> "none", val |-> PyNone]
Returned(v) == [kind |-> "return", val |-> v]
Raised(exc) == [kind |-> "raise", val |-> exc]

Filename(o) == IF o.file = PyNone THEN DefaultFile ELSE o.file

Rest(t) == IF t = Worker THEN "loop" ELSE "idle"

\* ------------------------------------------------------------------- Init
Init ==
    /\ data = EmptyDict
    /\ data_none = FALSE
    /\ ttl = EmptyDict
    /\ stats = ZeroStats
    /\ is_running = TRUE
    /\ lock = Free
    /\ now = 0
    /\ disk = [f \in Files |-> NoFile]
    /\ pc = [t \in Threads |-> Rest(t)]
    /\ op = [t \in Threads |-> NoOp]
    /\ ret = [t \in Threads |-> NoRet]
    /\ entry = NoTables
    /\ hist = [k \in ValidKeys |-> Unknown]
    /\ snap = [f \in Files |-> NoTables]
    /\ due = [k \in ValidKeys |-> NoDue]
    /\ nops = 0
    /\ stores = 1
    /\ nsets = 0

\* ------------------------------------------------- calling and returning
\* A caller starts operation o: the part of it that runs before the lock.
Enter(t, o) ==
    /\ pc[t] = "idle"
    /\ nops < MaxOps
    /\ nops' = nops + 1
    /\ pc' = [pc EXCEPT ![t] = "ready"]
    /\ op' = [op EXCEPT ![t] = [o EXCEPT !.at = now]]
    /\ UNCHANGED ret

\* A caller's operation o raises before it reaches the lock.
Reject(t, o, exc) ==
    /\ pc[t] = "idle"
    /\ nops < MaxOps
    /\ nops' = nops + 1
    /\ pc' = [pc EXCEPT ![t] = "exit"]
    /\ op' = [op EXCEPT ![t] = [o EXCEPT !.at = now]]
    /\ ret' = [ret EXCEPT ![t] = Raised(exc)]

\* Mutant of Begin: the with-block is entered whoever holds the lock.
Begin_unlocked(t, names) == pc[t] = "ready" /\ op[t].name \in names

\* `with self._lock:` the thread is about to take the free lock.
Begin(t, names) == pc[t] = "ready" /\ lock = Free /\ op[t].name \in names

\* The thread is inside the with-block, between two of its statements.
Inside(t, names) == pc[t] = "mid" /\ lock = t /\ op[t].name \in names

\* The body goes on: the lock is held.
ToMid(t) ==
    /\ lock' = t
    /\ pc' = [pc EXCEPT ![t] = "mid"]
    /\ UNCHANGED <<op, ret>>

\* The body reaches a return or a raise, still inside the with-block.
ToExit(t, r) ==
    /\ lock' = t
    /\ pc' = [pc EXCEPT ![t] = "exit"]
    /\ ret' = [ret EXCEPT ![t] = r]
    /\ UNCHANGED op

\* Mutant of leave: the auto-save thread ends with its first save.
leave_worker_dies(t) ==
    /\ pc[t] = "exit"
    /\ lock' = IF lock = t THEN Free ELSE lock
    /\ entry' = IF lock = t THEN NoTables ELSE entry
    /\ pc' = [pc EXCEPT ![t] = IF t = Worker THEN "done" ELSE "idle"]
    /\ op' = [op EXCEPT ![t] = NoOp]
    /\ ret' = [ret EXCEPT ![t] = NoRet]
    /\ UNCHANGED <<tables, is_running, now, disk, history, nops, stores, nsets>>

\* Mutant of leave: the lock is still held when the operation has ended.
leave_lock_kept(t) ==
    /\ pc[t] = "exit"
    /\ pc' = [pc EXCEPT ![t] = Rest(t)]
    /\ op' = [op EXCEPT ![t] = NoOp]
    /\ ret' = [ret EXCEPT ![t] = NoRet]
    /\ UNCHANGED <<tables, is_running, lock, now, disk, entry, history, nops, stores, nsets>>

\* The operation ends: the with-block releases the lock on every path, and
\* the caller has its result.
leave(t) ==
    /\ pc[t] = "exit"
    /\ lock' = IF lock = t THEN Free ELSE lock
    /\ entry' = IF lock = t THEN NoTables ELSE entry
    /\ pc' = [pc EXCEPT ![t] = Rest(t)]
    /\ op' = [op EXCEPT ![t] = NoOp]
    /\ ret' = [ret EXCEPT ![t] = NoRet]
    /\ UNCHANGED <<tables, is_running, now, disk, history, nops, stores, nsets>>

\* time.time() moves on.
Tick ==
    /\ now < MaxTime
    /\ now' = now + 1
    /\ UNCHANGED <<tables, is_running, lock, disk, pc, op, ret, entry, history, nops, stores, nsets>>

\* The prune that opens the with-block of every operation but load and reset.
Pruned == prune_expired(Cur, now)

Forget(h, gone) == [k \in ValidKeys |-> IF k \in gone THEN Unknown ELSE h[k]]

\* The history after a prune: nothing is promised of a key that expired.
PrunedHist(tb) == Forget(hist, DictKeys(ttl) \ DictKeys(tb.ttl))

\* The prune raises (the expiry table names a key the value table lacks).
PruneFails(t, exc) ==
    /\ Install(Pruned.tb)
    /\ entry' = Pruned.tb
    /\ hist' = PrunedHist(Pruned.tb)
    /\ UNCHANGED due
    /\ ToExit(t, Raised(exc))

\* -------------------------------------------------------------------- set
set_call(t) ==
    /\ \E key \in KeyInputs, value \in ValueInputs, tl \in TtlInputs :
          LET o == [NoOp EXCEPT !.name = "set", !.key = key, !.value = value, !.ttl = tl]
          IN  IF ~validate_key(key) THEN Reject(t, o, "InvalidKey")
              ELSE IF ~validate_value(value) THEN Reject(t, o, "InvalidValue")
              ELSE Enter(t, o)
    /\ UNCHANGED <<tables, is_running, lock, now, disk, entry, history, stores, nsets>>

\* with self._lock: self._prune_expired(); self._data[key] = value
set_data(t) ==
    /\ Begin(t, {"set"})
    /\ IF Pruned.err # "none" THEN PruneFails(t, Pruned.err)
       ELSE /\ entry' = Pruned.tb
            /\ IF Pruned.tb.none
               THEN /\ Install(Pruned.tb)
                    /\ hist' = PrunedHist(Pruned.tb)
                    /\ UNCHANGED due
                    /\ ToExit(t, Raised("TypeError"))
               ELSE /\ Install([Pruned.tb EXCEPT
                                   !.data = Store(@, op[t].key.s, op[t].value)])
                    /\ hist' = [PrunedHist(Pruned.tb) EXCEPT ![op[t].key.s] = Unknown]
                    /\ due' = [due EXCEPT ![op[t].key.s] = NoDue]
                    /\ ToMid(t)
    /\ UNCHANGED <<is_running, now, disk, snap, nops, stores, nsets>>

\* Mutant of set_expiry: a set without ttl leaves the key's old expiry.
set_expiry_kept(tt, key, tl, system_time) ==
    IF tl.kind = "int" THEN Store(tt, key, system_time + tl.n) ELSE tt

\* The expiry table after the ttl branch of set (the ttl is valid).
set_expiry(tt, key, tl, system_time) ==
    IF tl.kind = "int" THEN Store(tt, key, system_time + tl.n)
    ELSE IF Has(tt, key) THEN Del(tt, key)
    ELSE tt

\* if isinstance(ttl, int): if ttl <= 0: raise.  Only an int is tested.
BadTtl(tl) == tl.kind = "int" /\ tl.n <= 0

\* if isinstance(ttl, int): ... elif key in self._ttl: ...; return True
set_ttl(t) ==
    /\ Inside(t, {"set"})
    /\ IF BadTtl(op[t].ttl)
       THEN /\ ToExit(t, Raised("InvalidValue"))
            /\ UNCHANGED <<ttl, hist, due, nsets>>
       ELSE /\ ttl' = set_expiry(ttl, op[t].key.s, op[t].ttl, now)
            /\ hist' = [hist EXCEPT ![op[t].key.s] = op[t].value]
            /\ due' = [due EXCEPT ![op[t].key.s] =
                          IF op[t].ttl.kind = "int" THEN now + op[t].ttl.n ELSE NoDue]
            /\ nsets' = nsets + 1
            /\ ToExit(t, Returned(TRUE))
    /\ UNCHANGED <<data, data_none, stats, is_running, now, disk, entry, snap, nops, stores>>

\* -------------------------------------------------------------------- get
get_call(t) ==
    /\ \E key \in KeyInputs, supplied \in BOOLEAN, default \in Values :
          LET o == [NoOp EXCEPT !.name = "get", !.key = key, !.supplied = supplied,
                                !.default = IF supplied THEN default ELSE PyNone]
          IN  IF ~validate_key(key) THEN Reject(t, o, "InvalidKey") ELSE Enter(t, o)
    /\ UNCHANGED <<tables, is_running, lock, now, disk, entry, history, stores, nsets>>

\* What get returns or raises on the pruned value table.
get_result(d, key, default_value) ==
    IF Has(d, key) THEN Returned(Lookup(d, key))
    ELSE IF default_value # PyNone THEN Returned(default_value)
    ELSE Raised("KeyNotFound")

\* Mutant of get_stats: a miss is counted as a get only.
get_stats_miss_uncounted(st, d, key) ==
    IF Has(d, key)
    THEN [st EXCEPT !.gets = @ + 1, !.hits = @ + 1]
    ELSE [st EXCEPT !.gets = @ + 1]

get_stats(st, d, key) ==
    IF Has(d, key)
    THEN [st EXCEPT !.gets = @ + 1, !.hits = @ + 1]
    ELSE [st EXCEPT !.gets = @ + 1, !.misses = @ + 1]

get_body(t) ==
    /\ Begin(t, {"get"})
    /\ IF Pruned.err # "none" THEN PruneFails(t, Pruned.err)
       ELSE /\ entry' = Pruned.tb
            /\ hist' = PrunedHist(Pruned.tb)
            /\ UNCHANGED due
            /\ IF Pruned.tb.none
               THEN /\ Install(Pruned.tb)
                    /\ ToExit(t, Raised("TypeError"))
               ELSE /\ Install([Pruned.tb EXCEPT
                                   !.stats = get_stats(@, Pruned.tb.data, op[t].key.s)])
                    /\ ToExit(t, get_result(Pruned.tb.data, op[t].key.s, op[t].default))
    /\ UNCHANGED <<is_running, now, disk, snap, nops, stores, nsets>>

\* ----------------------------------------------------------------- delete
delete_call(t) ==
    /\ \E key \in KeyInputs :
          LET o == [NoOp EXCEPT !.name = "delete", !.key = key]
          IN  IF ~validate_key(key) THEN Reject(t, o, "InvalidKey") ELSE Enter(t, o)
    /\ UNCHANGED <<tables, is_running, lock, now, disk, entry, history, stores, nsets>>

\* if key in self._data: del self._data[key] ... else: return False
delete_data(t) ==
    /\ Begin(t, {"delete"})
    /\ IF Pruned.err # "none" THEN PruneFails(t, Pruned.err)
       ELSE /\ entry' = Pruned.tb
            /\ IF Pruned.tb.none
               THEN /\ Install(Pruned.tb)
                    /\ hist' = PrunedHist(Pruned.tb)
                    /\ UNCHANGED due
                    /\ ToExit(t, Raised("TypeError"))
               ELSE IF Has(Pruned.tb.data, op[t].key.s)
               THEN /\ Install([Pruned.tb EXCEPT !.data = Del(@, op[t].key.s)])
                    /\ hist' = [PrunedHist(Pruned.tb) EXCEPT ![op[t].key.s] = Unknown]
                    /\ due' = [due EXCEPT ![op[t].key.s] = NoDue]
                    /\ ToMid(t)
               ELSE /\ Install(Pruned.tb)
                    /\ hist' = [PrunedHist(Pruned.tb) EXCEPT ![op[t].key.s] = Absent]
                    /\ UNCHANGED due
                    /\ ToExit(t, Returned(FALSE))
    /\ UNCHANGED <<is_running, now, disk, snap, nops, stores, nsets>>

\* Mutant of delete_ttl: the key's expiry stays in the expiry table.
delete_ttl_kept(t) ==
    /\ Inside(t, {"delete"})
    /\ stats' = [stats EXCEPT !.deletes = @ + 1]
    /\ hist' = [hist EXCEPT ![op[t].key.s] = Absent]
    /\ ToExit(t, Returned(TRUE))
    /\ UNCHANGED <<data, data_none, ttl, is_running, now, disk, entry, snap, due, nops, stores, nsets>>

\* if key in self._ttl: del self._ttl[key]; deletes += 1; return True
delete_ttl(t) ==
    /\ Inside(t, {"delete"})
    /\ ttl' = Del(ttl, op[t].key.s)
    /\ stats' = [stats EXCEPT !.deletes = @ + 1]
    /\ hist' = [hist EXCEPT ![op[t].key.s] = Absent]
    /\ ToExit(t, Returned(TRUE))
    /\ UNCHANGED <<data, data_none, is_running, now, disk, entry, snap, due, nops, stores, nsets>>

\* ----------------------------------------------------------------- exists
exists_call(t) ==
    /\ \E key \in KeyInputs :
          LET o == [NoOp EXCEPT !.name = "exists", !.key = key]
          IN  IF ~validate_key(key) THEN Reject(t, o, "InvalidKey") ELSE Enter(t, o)
    /\ UNCHANGED <<tables, is_running, lock, now, disk, entry, history, stores, nsets>>

\* Mutant of exists_body: exists counts as a get.
exists_body_counted(t) ==
    /\ Begin(t, {"exists"})
    /\ IF Pruned.err # "none" THEN PruneFails(t, Pruned.err)
       ELSE /\ Install([Pruned.tb EXCEPT !.stats.gets = @ + 1])
            /\ entry' = Pruned.tb
            /\ hist' = PrunedHist(Pruned.tb)
            /\ UNCHANGED due
            /\ ToExit(t, IF Pruned.tb.none THEN Raised("TypeError")
                         ELSE Returned(Has(Pruned.tb.data, op[t].key.s)))
    /\ UNCHANGED <<is_running, now, disk, snap, nops, stores, nsets>>

exists_body(t) ==
    /\ Begin(t, {"exists"})
    /\ IF Pruned.err # "none" THEN PruneFails(t, Pruned.err)
       ELSE /\ Install(Pruned.tb)
            /\ entry' = Pruned.tb
            /\ hist' = PrunedHist(Pruned.tb)
            /\ UNCHANGED due
            /\ ToExit(t, IF Pruned.tb.none THEN Raised("TypeError")
                         ELSE Returned(Has(Pruned.tb.data, op[t].key.s)))
    /\ UNCHANGED <<is_running, now, disk, snap, nops, stores, nsets>>

\* ------------------------------------------------------------ enumeration
\* fnmatch.fnmatch(name, pat) for the wildcards * and ?.
RECURSIVE fnmatch(_, _)
fnmatch(name, pat) ==
    IF pat = <<>> THEN name = <<>>
    ELSE IF Head(pat) = "*"
         THEN \/ fnmatch(name, Tail(pat))
              \/ name # <<>> /\ fnmatch(Tail(name), pat)
    ELSE IF name = <<>> THEN FALSE
    ELSE /\ Head(pat) = "?" \/ Head(pat) = Head(name)
         /\ fnmatch(Tail(name), Tail(pat))

Patterns == {<<"*">>, <<"?">>, <<"a">>, <<"a", "*">>}

RECURSIVE Filter(_, _, _)
Filter(ks, pattern, glob) ==
    IF ks = <<>> THEN <<>>
    ELSE (IF (IF glob THEN fnmatch(Head(ks), pattern) ELSE Head(ks) = pattern)
          THEN <<Head(ks)>> ELSE <<>>)
         \o Filter(Tail(ks), pattern, glob)

keys_result(d, pattern) ==
    IF pattern = <<"*">> THEN KeyList(d)
    ELSE Filter(KeyList(d), pattern, \E i \in 1..Len(pattern) : pattern[i] = "*")

\* hit_rate = hits / gets as a fraction, 0 when gets is 0.
stats_result(tb) ==
    [size |-> Len(tb.data), ttl_keys |-> Len(tb.ttl),
     gets |-> tb.stats.gets, sets |-> tb.stats.sets, deletes |-> tb.stats.deletes,
     hits |-> tb.stats.hits, misses |-> tb.stats.misses, expired |-> tb.stats.expired,
     hit_rate |-> IF tb.stats.gets > 0 THEN <<tb.stats.hits, tb.stats.gets>>
                  ELSE <<0, 1>>]

Readers == {"size", "values", "items", "stats"}

read_call(t) ==
    /\ \E name \in Readers : Enter(t, [NoOp EXCEPT !.name = name])
    /\ UNCHANGED <<tables, is_running, lock, now, disk, entry, history, stores, nsets>>

keys_call(t) ==
    /\ \E pattern \in Patterns : Enter(t, [NoOp EXCEPT !.name = "keys", !.pattern = pattern])
    /\ UNCHANGED <<tables, is_running, lock, now, disk, entry, history, stores, nsets>>

\* What size, values, keys, items and stats return on the pruned tables;
\* on a value table that is None each of them raises.
read_result(o, tb) ==
    IF tb.none THEN Raised(IF o.name \in {"size", "stats"} THEN "TypeError"
                           ELSE "AttributeError")
    ELSE IF o.name = "size" THEN Returned(Len(tb.data))
    ELSE IF o.name = "values" THEN Returned(ValueList(tb.data))
    ELSE IF o.name = "keys" THEN Returned(keys_result(tb.data, o.pattern))
    ELSE IF o.name = "items" THEN Returned(tb.data)
    ELSE Returned(stats_result(tb))

read_body(t) ==
    /\ Begin(t, Readers \cup {"keys"})
    /\ IF Pruned.err # "none" THEN PruneFails(t, Pruned.err)
       ELSE /\ Install(Pruned.tb)
            /\ entry' = Pruned.tb
            /\ hist' = PrunedHist(Pruned.tb)
            /\ UNCHANGED due
            /\ ToExit(t, read_result(op[t], Pruned.tb))
    /\ UNCHANGED <<is_running, now, disk, snap, nops, stores, nsets>>

\* ------------------------------------------------------------------ reset
reset_call(t) ==
    /\ Enter(t, [NoOp EXCEPT !.name = "reset"])
    /\ UNCHANGED <<tables, is_running, lock, now, disk, entry, history, stores, nsets>>

\* Mutant of reset_data: reset zeroes the counters too.
reset_data_zeroed(t) ==
    /\ Begin(t, {"reset"})
    /\ entry' = Cur
    /\ data' = EmptyDict
    /\ data_none' = FALSE
    /\ stats' = ZeroStats
    /\ hist' = [k \in ValidKeys |-> IF hist[k] = Absent THEN Absent ELSE Unknown]
    /\ due' = [k \in ValidKeys |-> NoDue]
    /\ ToMid(t)
    /\ UNCHANGED <<ttl, is_running, now, disk, snap, nops, stores, nsets>>

\* with self._lock: self._data = {}
reset_data(t) ==
    /\ Begin(t, {"reset"})
    /\ entry' = Cur
    /\ data' = EmptyDict
    /\ data_none' = FALSE
    /\ hist' = [k \in ValidKeys |-> IF hist[k] = Absent THEN Absent ELSE Unknown]
    /\ due' = [k \in ValidKeys |-> NoDue]
    /\ ToMid(t)
    /\ UNCHANGED <<ttl, stats, is_running, now, disk, snap, nops, stores, nsets>>

\* Mutant of reset_ttl: the expiry table is left as it is.
reset_ttl_kept(t) ==
    /\ Inside(t, {"reset"})
    /\ ToExit(t, Returned(PyNone))
    /\ UNCHANGED <<tables, is_running, now, disk, entry, history, nops, stores, nsets>>

\* self._ttl = {}
reset_ttl(t) ==
    /\ Inside(t, {"reset"})
    /\ ttl' = EmptyDict
    /\ ToExit(t, Returned(PyNone))
    /\ UNCHANGED <<data, data_none, stats, is_running, now, disk, entry, history, nops, stores, nsets>>

\* ------------------------------------------------------------------- save
save_call(t) ==
    /\ \E file \in FileArgs : Enter(t, [NoOp EXCEPT !.name = "save", !.file = file])
    /\ UNCHANGED <<tables, is_running, lock, now, disk, entry, history, stores, nsets>>

\* quit: self._is_running = False, then self.save_to_disk()
quit_call(t) ==
    /\ Enter(t, [NoOp EXCEPT !.name = "quit"])
    /\ is_running' = FALSE
    /\ UNCHANGED <<tables, lock, now, disk, entry, history, stores, nsets>>

\* with self._lock: self._prune_expired(); open(filename, 'wb').  The open
\* leaves the file empty, to be read as such by whoever reads it before the
\* dump; or the open fails and the file is as it was.  Every exception is
\* wrapped.
save_open(t) ==
    /\ Begin(t, {"save", "quit"})
    /\ IF Pruned.err # "none"
       THEN /\ PruneFails(t, "DiskError")
            /\ UNCHANGED <<disk, snap>>
       ELSE /\ Install(Pruned.tb)
            /\ entry' = Pruned.tb
            /\ hist' = PrunedHist(Pruned.tb)
            /\ UNCHANGED due
            /\ LET fn == Filename(op[t])
               IN  \/ /\ disk' = [disk EXCEPT ![fn] = NoFile]
                      /\ snap' = [snap EXCEPT ![fn] = NoTables]
                      /\ ToMid(t)
                   \/ /\ ToExit(t, Raised("DiskError"))
                      /\ UNCHANGED <<disk, snap>>
    /\ UNCHANGED <<is_running, now, nops, stores, nsets>>

\* pickle.dump(backup, file); return True.  The dump writes the tables, or
\* it raises: with the file cut short, or, when not one byte was written,
\* with the file empty as the open left it.
save_dump(t) ==
    /\ Inside(t, {"save", "quit"})
    /\ LET fn == Filename(op[t])
           bytes == PickleDump(Backup(data, data_none, ttl, stats))
       IN  \/ /\ disk' = [disk EXCEPT ![fn] = bytes]
              /\ snap' = [snap EXCEPT ![fn] = Cur]
              /\ ToExit(t, Returned(IF op[t].name = "quit" THEN PyNone ELSE TRUE))
           \/ /\ disk' = [disk EXCEPT ![fn] = Truncated(bytes)]
              /\ snap' = [snap EXCEPT ![fn] = NoTables]
              /\ ToExit(t, Raised("DiskError"))
           \/ /\ UNCHANGED <<disk, snap>>
              /\ ToExit(t, Raised("DiskError"))
    /\ UNCHANGED <<tables, is_running, now, entry, hist, due, nops, stores, nsets>>

\* One step of the with-block of save_to_disk.
save_write(t) == save_open(t) \/ save_dump(t)

\* ------------------------------------------------------------------- load
\* open(filename, 'rb') and pickle.load(file), before the lock is taken.
load_call(t) ==
    /\ \E file \in FileArgs :
          LET o == [NoOp EXCEPT !.name = "load", !.file = file]
              bytes == disk[Filename(o)]
          IN  IF Len(bytes) = 0 \/ ~Readable(bytes) THEN Reject(t, o, "DiskError")
              ELSE Enter(t, [o EXCEPT !.backup = PickleLoad(bytes),
                                      !.seen = snap[Filename(o)]])
    /\ UNCHANGED <<tables, is_running, lock, now, disk, entry, history, stores, nsets>>

\* The tables after the three assignments of load_from_disk.
load_tables(backup, st) ==
    Tables(IF "data" \in backup.has THEN backup.data ELSE <<>>,
           "data" \notin backup.has \/ backup.none,
           IF "ttl" \in backup.has THEN backup.ttl ELSE <<>>,
           IF "stats" \in backup.has THEN backup.stats ELSE st)

\* with self._lock: the three assignments from backup.get(...)
load_replace(t) ==
    /\ Begin(t, {"load"})
    /\ entry' = Cur
    /\ IF ~op[t].backup.isdict
       THEN /\ ToExit(t, Raised("DiskError"))
            /\ UNCHANGED <<tables, hist, due>>
       ELSE /\ Install(load_tables(op[t].backup, stats))
            /\ hist' = [k \in ValidKeys |-> Unknown]
            /\ due' = [k \in ValidKeys |-> NoDue]
            /\ ToMid(t)
    /\ UNCHANGED <<is_running, now, disk, snap, nops, stores, nsets>>

\* self._prune_expired(); return True
load_prune(t) ==
    /\ Inside(t, {"load"})
    /\ Install(Pruned.tb)
    /\ ToExit(t, IF Pruned.err = "none" THEN Returned(TRUE) ELSE Raised("DiskError"))
    /\ UNCHANGED <<is_running, now, disk, entry, history, nops, stores, nsets>>

\* -------------------------------------------------------- auto-save thread
\* Mutant of worker_loop: the loop goes on whatever the flag says.
worker_loop_forever ==
    /\ pc[Worker] = "loop"
    /\ pc' = [pc EXCEPT ![Worker] = "sleep"]
    /\ UNCHANGED <<tables, is_running, lock, now, disk, op, ret, entry, history, nops, stores, nsets>>

\* while self._is_running:
worker_loop ==
    /\ pc[Worker] = "loop"
    /\ pc' = [pc EXCEPT ![Worker] = IF is_running THEN "sleep" ELSE "done"]
    /\ UNCHANGED <<tables, is_running, lock, now, disk, op, ret, entry, history, nops, stores, nsets>>

\* time.sleep(...) returns and the thread calls self.save_to_disk(); the
\* model lets the sleep end at any time.  What save raises is caught.
worker_wake ==
    /\ pc[Worker] = "sleep"
    /\ pc' = [pc EXCEPT ![Worker] = "ready"]
    /\ op' = [op EXCEPT ![Worker] = [NoOp EXCEPT !.name = "save"]]
    /\ UNCHANGED <<tables, is_running, lock, now, disk, ret, entry, history, nops, stores, nsets>>

\* ------------------------------------------------------------ construction
\* PocketDB(): a new store (a new process) over the same files, after the
\* previous one was shut down.
new_store ==
    /\ stores < MaxStores
    /\ ~is_running
    /\ lock = Free
    /\ \A t \in Callers : pc[t] = "idle"
    /\ pc[Worker] \in {"loop", "sleep", "done"}
    /\ stores' = stores + 1
    /\ Install(NoTables)
    /\ is_running' = TRUE
    /\ pc' = [t \in Threads |-> Rest(t)]
    /\ hist' = [k \in ValidKeys |-> Unknown]
    /\ due' = [k \in ValidKeys |-> NoDue]
    /\ nsets' = 0
    /\ UNCHANGED <<lock, now, disk, op, ret, entry, snap, nops>>

\* ------------------------------------------------------------------- Next
\* One step of caller t.
Step(t) ==
    \/ set_call(t) \/ set_data(t) \/ set_ttl(t)
    \/ get_call(t) \/ get_body(t)
    \/ delete_call(t) \/ delete_data(t) \/ delete_ttl(t)
    \/ exists_call(t) \/ exists_body(t)
    \/ read_call(t) \/ keys_call(t) \/ read_body(t)
    \/ reset_call(t) \/ reset_data(t) \/ reset_ttl(t)
    \/ save_call(t) \/ quit_call(t) \/ save_write(t)
    \/ load_call(t) \/ load_replace(t) \/ load_prune(t)
    \/ leave(t)

\* One step of caller t inside an operation it has started.
AllBody(t) ==
    \/ set_data(t) \/ set_ttl(t)
    \/ get_body(t)
    \/ delete_data(t) \/ delete_ttl(t)
    \/ exists_body(t)
    \/ read_body(t)
    \/ reset_data(t) \/ reset_ttl(t)
    \/ save_write(t)
    \/ load_replace(t) \/ load_prune(t)
    \/ leave(t)

\* No other caller is inside an operation.
Alone(t) == \A u \in Callers \ {t} : pc[u] = "idle"

\* The store under calls issued one at a time by either caller, as the clock
\* moves on.
Next ==
    \/ Tick
    \/ \E t \in Callers : Alone(t) /\ Step(t)

Spec == Init /\ [][Next]_vars

\* ------------------------------------------------- a store that never loads
\* One store from its construction on, with calls issued one at a time: set,
\* get, delete, reset and stats, and no load.
FreshStep(t) ==
    \/ set_call(t) \/ set_data(t) \/ set_ttl(t)
    \/ get_call(t) \/ get_body(t)
    \/ delete_call(t) \/ delete_data(t) \/ delete_ttl(t)
    \/ reset_call(t) \/ reset_data(t) \/ reset_ttl(t)
    \/ read_call(t) /\ op'[t].name = "stats"
    \/ read_body(t)
    \/ leave(t)

NextFresh ==
    \/ Tick
    \/ \E t \in Callers : Alone(t) /\ FreshStep(t)

SpecFresh == Init /\ [][NextFresh]_vars

\* ---------------------------------------------- threads and the auto-save
\* Two callers and the auto-save thread, freely interleaved: the callers
\* set, enumerate and shut the store down.  No key is given an expiry, so
\* what the clock reads changes nothing and it is left where it is.
ThreadStep(t) ==
    \/ /\ set_call(t)
       /\ pc'[t] = "ready" /\ op'[t].ttl = NoTtl
    \/ set_data(t) \/ set_ttl(t)
    \/ read_call(t) /\ op'[t].name = "items"
    \/ read_body(t)
    \/ quit_call(t)
    \/ save_write(t)
    \/ leave(t)

NextThreads ==
    \/ \E t \in Callers : ThreadStep(t)
    \/ worker_loop
    \/ worker_wake
    \/ save_write(Worker)
    \/ leave(Worker)

SpecThreads == Init /\ [][NextThreads]_vars

\* The same threads under a fair scheduler: a thread that can take its next
\* step inside a method, or in the auto-save loop, eventually takes it.
WorkerStep == worker_loop \/ worker_wake \/ save_write(Worker) \/ leave(Worker)

CallerBody(t) ==
    set_data(t) \/ set_ttl(t) \/ read_body(t) \/ save_write(t) \/ leave(t)

SpecThreadsFair ==
    /\ SpecThreads
    /\ WF_vars(WorkerStep)
    /\ \A t \in Callers : WF_vars(CallerBody(t))

\* ------------------------------------------------------ raising under load
\* The threads again, freely interleaved, with the calls that raise: set with
\* a ttl of zero, get and delete of a key that may be absent, save and load
\* of the default file; and with set with a ttl and reset, as the clock
\* moves on.
RaisingStep(t) ==
    \/ /\ set_call(t)
       /\ pc'[t] = "ready" /\ op'[t].key = Str(<<"a">>) /\ op'[t].value = "x"
       /\ op'[t].ttl \in {NoTtl, IntTtl(0), IntTtl(1)}
    \/ set_data(t) \/ set_ttl(t)
    \/ reset_call(t) \/ reset_data(t) \/ reset_ttl(t)
    \/ get_call(t) /\ op'[t].key = Str(<<"a">>) /\ ~op'[t].supplied
    \/ get_body(t)
    \/ delete_call(t) /\ op'[t].key = Str(<<"a">>)
    \/ delete_data(t) \/ delete_ttl(t)
    \/ save_call(t) /\ op'[t].file = PyNone
    \/ save_write(t)
    \/ load_call(t) /\ op'[t].file = PyNone
    \/ load_replace(t) \/ load_prune(t)
    \/ leave(t)

NextRaising ==
    \/ Tick
    \/ \E t \in Callers : RaisingStep(t)
    \/ worker_loop
    \/ worker_wake
    \/ save_write(Worker)
    \/ leave(Worker)

SpecRaising == Init /\ [][NextRaising]_vars

\* ------------------------------------------------- every operation at once
\* The threads freely interleaved with every operation of the store, on one
\* key and the default file.  No key is given an expiry, so what the clock
\* reads changes nothing and it is left where it is.
AllStep(t) ==
    \/ /\ set_call(t)
       /\ pc'[t] = "ready" /\ op'[t].key = Str(<<"a">>) /\ op'[t].value = "x"
       /\ op'[t].ttl = NoTtl
    \/ get_call(t) /\ op'[t].key = Str(<<"a">>) /\ ~op'[t].supplied
    \/ delete_call(t) /\ op'[t].key = Str(<<"a">>)
    \/ exists_call(t) /\ op'[t].key = Str(<<"a">>)
    \/ read_call(t)
    \/ keys_call(t) /\ op'[t].pattern = <<"*">>
    \/ reset_call(t)
    \/ save_call(t) /\ op'[t].file = PyNone
    \/ quit_call(t)
    \/ load_call(t) /\ op'[t].file = PyNone
    \/ AllBody(t)

NextAll ==
    \/ \E t \in Callers : AllStep(t)
    \/ worker_loop
    \/ worker_wake
    \/ save_write(Worker)
    \/ leave(Worker)

SpecAll == Init /\ [][NextAll]_vars

\* The scheduler is fair: the auto-save thread eventually takes its next
\* step, and a caller whose next step is possible again and again (the lock
\* is free for the whole of every sleep of the auto-save thread) takes it.
SpecAllFair ==
    /\ SpecAll
    /\ WF_vars(WorkerStep)
    /\ \A t \in Callers : SF_vars(AllBody(t))

\* --------------------------------------------------- files from elsewhere
\* Objects some other program may have pickled into a snapshot file: not a
\* dict, a dict without the value table, a dict whose expiry table names a
\* key its value table lacks, a dict without counters.
ForeignObjects ==
    {[NoBackup EXCEPT !.isdict = FALSE],
     [NoBackup EXCEPT !.has = {"ttl"}],
     [NoBackup EXCEPT !.has = {"ttl"}, !.ttl = <<<<<<"a">>, 0>>>>],
     [NoBackup EXCEPT !.has = {"data", "ttl"}, !.ttl = <<<<<<"a">>, 0>>>>],
     [NoBackup EXCEPT !.has = {"data", "ttl"}, !.data = <<<<<<"b">>, "x">>>>,
                      !.ttl = <<<<<<"b">>, 0>>, <<<<"a">>, 0>>>>],
     [NoBackup EXCEPT !.has = {"data", "ttl"}, !.data = <<<<<<"a">>, "x">>>>]}

\* A file appears where there was none.
put_file ==
    /\ \E f \in {DefaultFile}, obj \in ForeignObjects, whole \in BOOLEAN :
          /\ Len(disk[f]) = 0
          /\ disk' = [disk EXCEPT ![f] = IF whole THEN PickleDump(obj)
                                         ELSE Truncated(PickleDump(obj))]
    /\ UNCHANGED <<tables, is_running, lock, now, pc, op, ret, entry, history, nops, stores, nsets>>

ForeignStep(t) ==
    \/ /\ set_call(t)
       /\ pc'[t] = "ready" /\ op'[t].value = "x" /\ op'[t].ttl \in {NoTtl, IntTtl(1)}
    \/ set_data(t) \/ set_ttl(t)
    \/ get_call(t) /\ pc'[t] = "ready" /\ ~op'[t].supplied
    \/ get_body(t)
    \/ read_call(t) /\ op'[t].name \in {"size", "values"}
    \/ read_body(t)
    \/ save_call(t) /\ op'[t].file = PyNone
    \/ save_write(t)
    \/ load_call(t) /\ op'[t].file = PyNone
    \/ load_replace(t) \/ load_prune(t)
    \/ leave(t)

NextForeign ==
    \/ Tick
    \/ put_file
    \/ \E t \in Callers : Alone(t) /\ ForeignStep(t)

SpecForeign == Init /\ [][NextForeign]_vars

\* --------------------------------------------------- shutdown and restart
\* A store is filled, saved and shut down; a new store loads the snapshot.
ReloadStep(t) ==
    \/ /\ set_call(t)
       /\ pc'[t] = "ready" /\ op'[t].ttl.kind \in {"none", "int"}
    \/ set_data(t) \/ set_ttl(t)
    \/ save_call(t) \/ quit_call(t) \/ save_write(t)
    \/ load_call(t) \/ load_replace(t) \/ load_prune(t)
    \/ leave(t)

NextReload ==
    \/ Tick
    \/ new_store
    \/ \E t \in Callers : Alone(t) /\ ReloadStep(t)

SpecReload == Init /\ [][NextReload]_vars

\* ================================================================= claims
\* A caller t is at the return or raise of operation `name`, inside the
\* with-block.
AtExit(t, name) == pc[t] = "exit" /\ lock = t /\ op[t].name = name

\* C1: a get(k) that starts after set(k, v) returned true, with no delete,
\* reset, load, later set or expiry of k in between, returns v.
C1_SetThenGet ==
    \A t \in Callers :
        AtExit(t, "get") /\ hist[op[t].key.s] \in Values
            => ret[t] = Returned(hist[op[t].key.s])

C1_Witness ==
    \E t \in Callers :
        /\ AtExit(t, "get")
        /\ hist[op[t].key.s] \in Values
        /\ ret[t] = Returned(hist[op[t].key.s])
        /\ nops = MaxOps

\* C2 (as claimed): set with a supplied ttl that is not a positive integer
\* (zero, negative, or not an integer) raises InvalidValue and leaves the
\* tables and counters as the call found them after pruning.
C2_BadTtlLeavesState ==
    \A t \in Callers :
        AtExit(t, "set") /\ (op[t].ttl.kind = "float" \/ BadTtl(op[t].ttl))
            => ret[t] = Raised("InvalidValue") /\ Cur = entry

\* C3: an operation that starts strictly after the expiry instant T + t of a
\* key set with a TTL (and not set since) finds the key in neither table and
\* behaves as if it were absent.
Observers == {"get", "exists", "keys", "size", "values", "items", "stats", "save"}

Expired(t, k) == due[k] # NoDue /\ op[t].at > due[k]

Miss(o) ==
    IF o.supplied /\ o.default # PyNone THEN Returned(o.default)
    ELSE Raised("KeyNotFound")

Unseen(t, k) ==
    LET o == op[t]
        r == ret[t]
    IN  CASE o.name = "get" ->
               o.key.s = k => r = Miss(o) /\ stats.hits = entry.stats.hits
          [] o.name = "exists" -> o.key.s = k => r = Returned(FALSE)
          [] o.name = "keys" -> \A i \in 1..Len(r.val) : r.val[i] # k
          [] o.name = "items" -> \A i \in 1..Len(r.val) : r.val[i][1] # k
          [] o.name = "values" -> Len(r.val) = Len(data)
          [] o.name = "size" -> r.val = Len(data)
          [] o.name = "stats" -> r.val.size = Len(data) /\ r.val.ttl_keys = Len(ttl)
          [] o.name = "save" ->
               r.kind = "return" => ~Has(PickleLoad(disk[Filename(o)]).data, k)

C3_ExpiredUnseen ==
    \A t \in Callers :
        pc[t] = "exit" /\ lock = t /\ op[t].name \in Observers
            => \A k \in ValidKeys :
                   Expired(t, k) => ~Has(data, k) /\ ~Has(ttl, k) /\ Unseen(t, k)

C3_Witness ==
    \E t \in Callers, k \in ValidKeys :
        /\ AtExit(t, "get")
        /\ op[t].key.s = k
        /\ Expired(t, k)
        /\ stats.expired > 0
        /\ ret[t] = Raised("KeyNotFound")

\* C5: outside a critical section every key of the expiry table is a key of
\* the value table.
C5_TtlWithinData == lock = Free => ~data_none /\ DictKeys(ttl) \subseteq DictKeys(data)

C5_Witness ==
    /\ lock = Free
    /\ Len(ttl) > 0
    /\ Len(data) > Len(ttl)

\* C9: after delete(k) has returned, and until k is set again or restored
\* by load, exists(k) returns false and get(k) without a default raises
\* KeyNotFound.
C9_DeletedStaysAbsent ==
    \A t \in Callers :
        /\ AtExit(t, "exists") /\ hist[op[t].key.s] = Absent
              => ret[t] = Returned(FALSE)
        /\ AtExit(t, "get") /\ hist[op[t].key.s] = Absent /\ ~op[t].supplied
              => ret[t] = Raised("KeyNotFound")

C9_Witness ==
    \E t \in Callers :
        /\ AtExit(t, "exists")
        /\ hist[op[t].key.s] = Absent
        /\ stats.deletes > 0
        /\ ret[t] = Returned(FALSE)

\* C10 (as claimed): get on a live key adds one to gets and hits and returns
\* the value; get on an absent key adds one to gets and misses and returns
\* the default whenever the caller supplied one, whatever its value, else
\* raises KeyNotFound; nothing else changes after the prune.
C10_GetContract ==
    \A t \in Callers :
        AtExit(t, "get") =>
            LET k == op[t].key.s
                hit == Has(entry.data, k)
            IN  /\ data = entry.data /\ ttl = entry.ttl
                /\ stats = IF hit
                           THEN [entry.stats EXCEPT !.gets = @ + 1, !.hits = @ + 1]
                           ELSE [entry.stats EXCEPT !.gets = @ + 1, !.misses = @ + 1]
                /\ ret[t] = IF hit THEN Returned(Lookup(entry.data, k))
                            ELSE IF op[t].supplied THEN Returned(op[t].default)
                            ELSE Raised("KeyNotFound")

\* C4 (as claimed): a load that raises DiskError leaves the value table, the
\* expiry table and the counters as they were when it took the lock.
C4_FailedLoadLeavesState ==
    \A t \in Callers :
        AtExit(t, "load") /\ ret[t] = Raised("DiskError") => Cur = entry

\* C6: every set returns true, and items() holds the pair of every key whose
\* set has returned, whatever the interleaving of the callers with each
\* other and with the auto-save thread.
C6_NoLostUpdate ==
    \A t \in Callers :
        /\ AtExit(t, "set") => ret[t] = Returned(TRUE)
        /\ AtExit(t, "items") =>
              \A k \in ValidKeys :
                  hist[k] \in Values =>
                      \E i \in 1..Len(ret[t].val) : ret[t].val[i] = <<k, hist[k]>>

C6_Witness ==
    \E t \in Callers :
        /\ AtExit(t, "items")
        /\ \A k \in ValidKeys : hist[k] \in Values
        /\ Len(ret[t].val) = Cardinality(ValidKeys)
        /\ pc[Worker] = "ready"

\* C7 (as claimed): when its sleep ends the auto-save thread calls save only
\* if the store is still marked running.
C7_NoSaveAfterShutdown ==
    [][pc[Worker] = "sleep" /\ pc'[Worker] = "ready" => is_running]_vars

\* C8: a load of a file that a save wrote returns true and leaves the tables
\* that the save wrote, less the entries whose expiry instant has passed when
\* the load prunes (at some instant p between its call and its return).
LiveAt(d, tt, p) ==
    SelectSeq(d, LAMBDA e : ~(Has(tt, e[1]) /\ p > Lookup(tt, e[1])))

C8_SaveLoadRoundTrip ==
    \A t \in Callers :
        AtExit(t, "load") =>
            /\ ret[t] = Returned(TRUE)
            /\ \E p \in op[t].at..now :
                /\ data = LiveAt(op[t].seen.data, op[t].seen.ttl, p)
                /\ ttl = LiveAt(op[t].seen.ttl, op[t].seen.ttl, p)

C8_Witness ==
    \E t \in Callers :
        /\ AtExit(t, "load")
        /\ ret[t] = Returned(TRUE)
        /\ stores > 1
        /\ entry = NoTables
        /\ Len(data) > 0
        /\ Len(ttl) > 0

\* C11: set, get, delete and exists called with a key that is not a string,
\* is empty or is whitespace-only raise InvalidKey, and set called with a
\* value that cannot be serialised raises InvalidValue; the call then ends at
\* once, before the lock, with the tables and the counters as they were.
Keyed == {"set", "get", "delete", "exists"}

Invalid(o) ==
    IF ~(o.key.isstr /\ \E i \in 1..Len(o.key.s) : o.key.s[i] \notin Whitespace)
    THEN "InvalidKey"
    ELSE IF o.name = "set" /\ o.value = Function THEN "InvalidValue"
    ELSE "none"

C11_InvalidArgumentRejected ==
    [][\A t \in Callers :
          pc[t] = "idle" /\ pc'[t] # "idle" /\ op'[t].name \in Keyed
              /\ Invalid(op'[t]) # "none"
          => /\ pc'[t] = "exit"
             /\ ret'[t] = Raised(Invalid(op'[t]))
             /\ lock' = lock
             /\ tables' = tables]_vars

C11_Witness ==
    \E t \in Callers :
        /\ pc[t] = "exit"
        /\ lock = Free
        /\ op[t].name = "set"
        /\ ret[t] = Raised("InvalidValue")
        /\ Len(data) > 0
        /\ Len(ttl) > 0

\* C12 (as claimed): keys(pattern) returns exactly the live keys that match
\* the glob pattern, where * matches any run of characters and ? exactly one
\* character; a pattern without wildcard matches only the key equal to it.
Glob(ks, pattern) == Filter(ks, pattern, TRUE)

C12_KeysGlob ==
    \A t \in Callers :
        AtExit(t, "keys") =>
            ret[t] = Returned(Glob(KeyList(entry.data), op[t].pattern))

\* C13: a save that fails inside the auto-save thread is caught there: the
\* failure changes no caller's position or result, the thread goes back to
\* its loop test, and while the store is marked running it reaches a save
\* again.
WorkerFailed == pc[Worker] = "exit" /\ ret[Worker] = Raised("DiskError")

C13_SaveFailureSwallowed ==
    /\ [][~WorkerFailed /\ WorkerFailed'
             => \A t \in Callers : pc'[t] = pc[t] /\ ret'[t] = ret[t]]_vars
    /\ [][WorkerFailed /\ ~WorkerFailed'
             => pc'[Worker] = "loop" /\ ret'[Worker] = NoRet]_vars
    /\ (WorkerFailed ~> (pc[Worker] = "ready" \/ ~is_running))

C13_Witness ==
    /\ WorkerFailed
    /\ is_running
    /\ \E t \in Callers : pc[t] = "ready" /\ op[t].name = "items"
    /\ Len(data) > 0

\* C14: reset leaves both tables empty whatever they held, changes no
\* counter and writes no file; a reset of a store that a reset has just
\* emptied therefore leaves it as it was.
InReset(t) == op[t].name = "reset" /\ pc[t] \in {"ready", "mid"} /\ pc'[t] # pc[t]

C14_ResetClears ==
    [][\A t \in Callers :
          /\ InReset(t) => stats' = stats /\ disk' = disk
          /\ InReset(t) /\ pc'[t] = "exit"
                => /\ data' = EmptyDict /\ ~data_none' /\ ttl' = EmptyDict
                   /\ ret'[t] = Returned(PyNone)]_vars

C14_Witness ==
    \E t \in Callers :
        /\ AtExit(t, "reset")
        /\ Len(entry.data) > 0
        /\ Len(entry.ttl) > 0
        /\ stats.gets > 0
        /\ Len(data) = 0

\* C15: a thread reads or writes the tables and the counters only in the
\* body of a with-block, which it enters when the lock is free and runs
\* holding the lock while no other thread is inside one; and a thread that
\* is not inside a method, whether the method returned or raised, does not
\* hold the lock.  (A load that fails at open or pickle.load raises before
\* it reaches the tables.)
BodyStep(t) == pc[t] \in {"ready", "mid"} /\ pc'[t] \in {"mid", "exit"} /\ pc'[t] # pc[t]

Outside == {"idle", "ready", "loop", "sleep", "done"}

C15_LockDiscipline ==
    [][/\ tables' # tables => \E t \in Threads : BodyStep(t)
       /\ \A t \in Threads :
             /\ BodyStep(t) => /\ lock \in {Free, t} /\ lock' = t
                               /\ \A u \in Threads \ {t} : pc[u] # "mid"
             /\ ret'[t] # ret[t] /\ ret'[t] # NoRet /\ op'[t].name # "load"
                   => BodyStep(t)
             /\ pc'[t] = "mid" => lock' = t
             /\ pc'[t] \in Outside => lock' # t]_vars

C15_Witness ==
    \E t \in Callers, u \in Callers :
        /\ AtExit(t, "set")
        /\ ret[t] = Raised("InvalidValue")
        /\ pc[u] = "ready"
        /\ pc[Worker] = "ready"

\* C16: a file that a save has written, in a caller or in the auto-save
\* thread, holds the value table, the expiry table and the counters as the
\* save found them when it took the lock (less what it pruned), which is how
\* the last operation to finish left them: no other thread is between two
\* statements of a body, the tables are still those, and every key of the
\* written expiry table is a key of the written value table.
Saved(t) ==
    /\ pc[t] = "exit" /\ lock = t
    /\ op[t].name \in {"save", "quit"}
    /\ ret[t].kind = "return"

Written(t) == load_tables(PickleLoad(disk[Filename(op[t])]), ZeroStats)

C16_SnapshotConsistent ==
    \A t \in Threads :
        Saved(t) =>
            /\ Readable(disk[Filename(op[t])])
            /\ Written(t) = entry
            /\ Cur = entry
            /\ \A u \in Threads \ {t} : pc[u] # "mid"
            /\ ~Written(t).none
            /\ DictKeys(Written(t).ttl) \subseteq DictKeys(Written(t).data)

C16_Witness ==
    /\ Saved(Worker)
    /\ Len(Written(Worker).ttl) > 0
    /\ \E u \in Callers : pc[u] = "ready" /\ op[u].name = "reset"
    /\ \E u \in Callers : pc[u] = "ready" /\ op[u].name = "delete"

\* C17: a pruning pass removes from both tables exactly the keys whose
\* recorded expiry instant is strictly less than the current instant, keeps
\* every other entry (one that expires at the current instant, one without
\* expiry) as it is, and adds the number of keys removed to the expired
\* counter, changing no other counter.
Stale(tb, instant) == {k \in DictKeys(tb.ttl) : Lookup(tb.ttl, k) < instant}

Without(d, gone) == SelectSeq(d, LAMBDA e : e[1] \notin gone)

PrunedExactly(pre, post, instant) ==
    /\ post.data = Without(pre.data, Stale(pre, instant))
    /\ post.ttl = Without(pre.ttl, Stale(pre, instant))
    /\ post.stats = [pre.stats EXCEPT !.expired = @ + Cardinality(Stale(pre, instant))]

Prunes == {"set", "get", "delete", "exists", "keys", "size", "values", "items",
           "stats", "save", "quit"}

C17_PruneExact ==
    [][\A t \in Callers :
          /\ pc[t] = "ready" /\ pc'[t] \in {"mid", "exit"} /\ op[t].name \in Prunes
                => PrunedExactly(Cur, entry', now)
          /\ pc[t] = "mid" /\ pc'[t] = "exit" /\ op[t].name = "load"
                => PrunedExactly(Cur, Cur', now)]_vars

C17_Witness ==
    \E t \in Callers :
        /\ AtExit(t, "get")
        /\ entry.stats.expired = 1
        /\ Len(entry.ttl) = 1
        /\ entry.ttl[1][2] = now
        /\ Len(entry.data) = 1

\* C18: when set(k, v, ttl) with a positive integer ttl returns true the
\* expiry table maps k to the instant the call read plus ttl; when
\* set(k, v) without ttl returns true k is not in the expiry table, whether
\* or not it was before; and from then until the next set, delete, reset or
\* load k stays in the value table with its value however far time advances.
C18_SetExpiry ==
    /\ \A t \in Callers :
          AtExit(t, "set") /\ ret[t] = Returned(TRUE) =>
              LET k == op[t].key.s IN
              /\ Has(data, k) /\ Lookup(data, k) = op[t].value
              /\ op[t].ttl.kind = "int" =>
                    /\ op[t].ttl.n > 0
                    /\ Has(ttl, k)
                    /\ \E c \in op[t].at..now : Lookup(ttl, k) = c + op[t].ttl.n
              /\ op[t].ttl = NoTtl => ~Has(ttl, k)
    /\ lock = Free =>
          \A k \in ValidKeys :
              hist[k] \in Values /\ due[k] = NoDue =>
                  Has(data, k) /\ Lookup(data, k) = hist[k] /\ ~Has(ttl, k)

C18_Witness ==
    \E t \in Callers :
        /\ AtExit(t, "set")
        /\ ret[t] = Returned(TRUE)
        /\ op[t].ttl = NoTtl
        /\ Has(entry.ttl, op[t].key.s)
        /\ ~Has(ttl, op[t].key.s)

\* C19: delete(k) of a key that is live after the prune removes k from the
\* value table and from the expiry table, holding the lock throughout, adds
\* one to deletes and returns true; delete(k) of an absent key returns false
\* and leaves the tables and every counter as the prune left them.
C19_Delete ==
    \A t \in Callers :
        /\ pc[t] = "mid" /\ op[t].name = "delete" => lock = t
        /\ AtExit(t, "delete") =>
              LET k == op[t].key.s IN
              IF Has(entry.data, k)
              THEN /\ ret[t] = Returned(TRUE)
                   /\ data = Without(entry.data, {k})
                   /\ ttl = Without(entry.ttl, {k})
                   /\ stats = [entry.stats EXCEPT !.deletes = @ + 1]
              ELSE /\ ret[t] = Returned(FALSE)
                   /\ Cur = entry

C19_Witness ==
    \E t \in Callers :
        /\ AtExit(t, "delete")
        /\ ret[t] = Returned(TRUE)
        /\ Has(entry.ttl, op[t].key.s)
        /\ Len(data) > 0
        /\ Len(ttl) > 0

\* C20: save (returning or raising DiskError), exists, size, keys, values,
\* items and stats change the tables and the counters only as one pruning
\* pass does: expired entries go, expired rises by their number, and all
\* else, the other five counters included, stays as it was.
ReadOnly == {"save", "quit", "exists", "size", "keys", "values", "items", "stats"}

C20_ReadOnlyFrame ==
    [][\A t \in Callers :
          op[t].name \in ReadOnly =>
              /\ pc[t] = "ready" /\ pc'[t] # "ready"
                    => /\ pc'[t] \in {"mid", "exit"}
                       /\ pc'[t] = "mid" => op[t].name \in {"save", "quit"}
                       /\ PrunedExactly(Cur, Cur', now)
                       /\ ~data_none'
                       /\ is_running' = is_running
              /\ pc[t] = "mid" /\ pc'[t] # "mid"
                    => /\ pc'[t] = "exit"
                       /\ tables' = tables
                       /\ is_running' = is_running]_vars

C20_Witness ==
    \E t \in Callers :
        /\ AtExit(t, "save")
        /\ ret[t] = Raised("DiskError")
        /\ entry.stats.expired > 0
        /\ Cur = entry
        /\ Len(data) > 0

\* C21 (as claimed): no step of any operation, reset and load included, makes
\* one of the six counters smaller.
Counters == {"gets", "sets", "deletes", "hits", "misses", "expired"}

NotSmaller == \A c \in Counters : stats'[c] >= stats[c]

C21_CountersMonotone == [][NotSmaller]_vars

\* C21 (amended): no step of any operation other than load makes a counter
\* smaller; load replaces the counters by those of the snapshot it read.
Replacing(t) == op[t].name = "load" /\ pc[t] = "ready" /\ pc'[t] = "mid"

C21_MonotoneExceptLoad ==
    [][/\ (\A t \in Callers : ~Replacing(t)) => NotSmaller
       /\ \A t \in Callers : Replacing(t) => stats' = op[t].seen.stats]_vars

C21_Witness ==
    \E t \in Callers :
        /\ AtExit(t, "load")
        /\ ret[t] = Returned(TRUE)
        /\ stats.gets < entry.stats.gets

\* C22 (as claimed): on a store that has not called load, stats() reports
\* the number of live entries as size, the number of entries of the expiry
\* table as ttl_keys, and as sets the number of set calls that have returned
\* true since construction.
C22_StatsReport ==
    \A t \in Callers :
        AtExit(t, "stats") =>
            /\ ret[t].kind = "return"
            /\ ret[t].val.size = Len(data)
            /\ ret[t].val.ttl_keys = Len(ttl)
            /\ ret[t].val.sets = nsets

\* C23: once shutdown has marked the store non-running the auto-save thread
\* starts no further iteration of its loop (it ends the sleep and the save
\* it may be in, and nothing more), and under fair scheduling its loop
\* eventually exits.
C23_WorkerExits ==
    /\ [][~is_running /\ pc[Worker] = "loop" => pc'[Worker] \in {"loop", "done"}]_vars
    /\ [][pc[Worker] = "done" => pc'[Worker] = "done"]_vars
    /\ (~is_running ~> pc[Worker] = "done")

C23_Witness ==
    /\ ~is_running
    /\ pc[Worker] = "done"
    /\ Len(disk[DefaultFile]) > 0
    /\ Len(data) > 0
    /\ \E t \in Callers : pc[t] = "ready"

\* A thread is inside an operation: called, and not yet back with its
\* result or its exception.
Busy(t) == pc[t] \in {"ready", "mid", "exit"}

\* The next step of thread t inside its operation.
BusyStep(t) == IF t = Worker THEN save_write(Worker) \/ leave(Worker) ELSE AllBody(t)

\* C24: in no reachable state are threads inside operations while none of
\* them can take a step (the lock is free or its holder can go on), and
\* under fair scheduling every operation that a caller or the auto-save
\* thread has started comes back to its caller.
C24_NoOperationBlocks ==
    /\ []((\E t \in Threads : Busy(t)) => \E u \in Threads : Busy(u) /\ ENABLED BusyStep(u))
    /\ [](lock # Free => Busy(lock) /\ ENABLED BusyStep(lock))
    /\ \A t \in Threads : (Busy(t) ~> ~Busy(t))

C24_Witness ==
    /\ lock = Worker
    /\ \A t \in Callers : pc[t] = "ready"
    /\ op["t1"].name = "load"
    /\ op["t2"].name = "reset"

\* C25: the counters always satisfy gets = hits + misses, and the hit_rate
\* that stats() reports is hits / (hits + misses) when gets > 0 and 0 when
\* no get has been counted.
C25_GetsAreHitsPlusMisses ==
    /\ stats.gets = stats.hits + stats.misses
    /\ \A t \in Callers :
           AtExit(t, "stats") =>
               /\ ret[t].kind = "return"
               /\ ret[t].val.gets = ret[t].val.hits + ret[t].val.misses
               /\ ret[t].val.hit_rate =
                      IF ret[t].val.gets > 0
                      THEN <<ret[t].val.hits, ret[t].val.hits + ret[t].val.misses>>
                      ELSE <<0, 1>>

C25_Witness ==
    \E t \in Callers :
        /\ AtExit(t, "stats")
        /\ ret[t].kind = "return"
        /\ ret[t].val.misses = 1
        /\ ret[t].val.hit_rate = <<0, 1>>
        /\ disk[DefaultFile] # NoFile

====
